---- MODULE Spec2Model ----
(***************************************************************************)
(* A model of the iteration cursors of src/src/list.rs:                    *)
(*   MemoryList       a cursor over a Vec<T>                               *)
(*   BufferList       a cursor over a BufReader of a seekable byte stream  *)
(*   MemoryArrayList  a cursor that rotates over a Vec<Vec<T>>             *)
(* Each cursor has its own specification (SpecMemory, SpecBuffer,          *)
(* SpecArray); the variables of the other two cursors stay idle in it.     *)
(* Indexes are the 0-based indexes of the source; At(s, i) reads element i. *)
(***************************************************************************)
EXTENDS Integers, Sequences, FiniteSets

\* ------------------------------------------------------------------ bounds

\* Longest Vec<T> handed to MemoryList::new / new_round_robin.
MaxLen == 3

\* produce-next calls followed on a cursor on which nothing but produce-next
\* has been called since construction (the call counter is an observer).
MaxCalls == 7

\* Longest byte stream handed to BufferList::new / new_round_robin.
MaxStreamLen == 3

\* Largest ordinary line index handed to BufferList::seek.
MaxLineArg == 1

\* Stand-in for usize::MAX (2^64 - 1), the one line index whose increment
\* wraps to 0: AtomicUsize::fetch_add wraps around on overflow.
UsizeMax == 15

\* Most sub-lists handed to MemoryArrayList::new / new_round_robin, and the
\* longest of them.
MaxLists == 3

MaxSubLen == 2

\* produce-next calls each of the two callers of a shared MemoryList makes.
MaxRaceCalls == 2

\* The element type T is generic and the code only clones elements: two
\* distinct values tell any two positions of a sequence apart.
Values == {1, 2}

\* ----------------------------------------------------------------- helpers

SeqsUpTo(S, n) == UNION {[1..k -> S] : k \in 0..n}

\* vec[i] of the source (0-based).
At(s, i) == s[i + 1]

\* ------------------------------------------------------------------- state

VARIABLES
    ml_vec,          \* MemoryList.vec
    ml_round_robin,  \* MemoryList.round_robin
    ml_line_index,   \* MemoryList.line_index
    ml_ret,          \* what the last call on the MemoryList returned
    ml_before,       \* observer: line_index and ml_ret as the last call found them
    ml_fresh,        \* observer: only produce-next was called since construction
    ml_calls         \* observer: produce-next calls so far, while ml_fresh

ml_vars ==
    <<ml_vec, ml_round_robin, ml_line_index, ml_ret, ml_before, ml_fresh, ml_calls>>

VARIABLES
    bl_stream,        \* the bytes of the stream under BufferList.buf_reader
    bl_pos,           \* the read position of BufferList.buf_reader
    bl_round_robin,   \* BufferList.round_robin
    bl_line_index,    \* BufferList.line_index
    bl_bytes_offset,  \* BufferList.bytes_offset
    bl_ret,           \* what the last call on the BufferList returned
    bl_before,        \* observer: the call the last call followed, and its outcome
    bl_fresh,         \* observer: only produce-next was called since construction
    bl_calls          \* observer: produce-next calls so far, while bl_fresh

bl_vars ==
    <<bl_stream, bl_pos, bl_round_robin, bl_line_index, bl_bytes_offset,
      bl_ret, bl_before, bl_fresh, bl_calls>>

VARIABLES
    mal_lists,           \* MemoryArrayList.lists
    mal_round_robin,     \* MemoryArrayList.round_robin
    mal_cur_list_index,  \* MemoryArrayList.cur_list_index
    mal_line_indexes,    \* MemoryArrayList.line_indexes
    mal_finished_count,  \* MemoryArrayList.finished_count
    mal_ret,             \* what the last call on the MemoryArrayList returned
    mal_calls            \* observer: produce-next calls so far

mal_vars ==
    <<mal_lists, mal_round_robin, mal_cur_list_index, mal_line_indexes,
      mal_finished_count, mal_ret, mal_calls>>

\* Two callers inside MemoryList::iter on one cursor, one memory operation
\* at a time.
VARIABLES
    rc_pc,        \* where each caller stands in MemoryList::iter
    rc_idx,       \* the line_index each caller loaded last
    rc_val,       \* the element each caller cloned, and the index it read it at
    rc_ret,       \* what each caller's last call returned
    rc_calls,     \* the calls each caller has completed
    rc_poisoned,  \* the Mutex of MemoryList.vec is poisoned
    rc_returned,  \* observer: the elements returned so far, by both callers
    rc_wrapped    \* observer: line_index has been stored back to 0

rc_vars ==
    <<rc_pc, rc_idx, rc_val, rc_ret, rc_calls, rc_poisoned, rc_returned, rc_wrapped>>

vars == <<ml_vars, bl_vars, mal_vars, rc_vars>>

\* ------------------------------------------------------------- MemoryList

\* A result of a call: `op` and `arg` name the call, `tag` and the rest are
\* what it returned (Some(val) / None, Ok(line_index) / Err(MemoryOutOfBounds
\* {line_index, max_len})); a field the result does not carry is 0.
MlRet(op, arg, tag, val, line_index, max_len) ==
    [op |-> op, arg |-> arg, tag |-> tag, val |-> val,
     line_index |-> line_index, max_len |-> max_len]

\* MemoryList::new and MemoryList::new_round_robin.
MemoryList_new ==
    /\ ml_vec \in SeqsUpTo(Values, MaxLen)
    /\ ml_round_robin \in BOOLEAN
    /\ ml_line_index = 0
    /\ ml_ret = MlRet("new", 0, "New", 0, 0, 0)
    /\ ml_before = [line_index |-> 0, ret |-> MlRet("new", 0, "New", 0, 0, 0)]
    /\ ml_fresh = TRUE
    /\ ml_calls = 0

MemoryList_idle ==
    /\ ml_vec = <<>>
    /\ ml_round_robin = FALSE
    /\ ml_line_index = 0
    /\ ml_ret = MlRet("new", 0, "New", 0, 0, 0)
    /\ ml_before = [line_index |-> 0, ret |-> MlRet("new", 0, "New", 0, 0, 0)]
    /\ ml_fresh = TRUE
    /\ ml_calls = 0

\* The observer's record of the state a call starts from.
MlObserve == ml_before' = [line_index |-> ml_line_index, ret |-> ml_ret]

\* A seek that accepts the index one past the end.
MemoryList_seek_in_bounds_inclusive(line_index) == line_index <= Len(ml_vec)

\* The bounds test of MemoryList::seek.
MemoryList_seek_in_bounds(line_index) == line_index < Len(ml_vec)

\* The result of MemoryList::seek(line_index).
MemoryList_seek_result(line_index) ==
    IF MemoryList_seek_in_bounds(line_index)
    THEN MlRet("seek", line_index, "Ok", 0, line_index, 0)
    ELSE MlRet("seek", line_index, "Err", 0, line_index, Len(ml_vec))

\* A seek that rewinds the cursor when its target is out of bounds.
MemoryList_seek_store_rewind(line_index) ==
    IF MemoryList_seek_in_bounds(line_index) THEN line_index ELSE 0

\* A seek that stores the index before it has checked it.
MemoryList_seek_store_unchecked(line_index) == line_index

\* The line_index MemoryList::seek(line_index) leaves behind.
MemoryList_seek_store(line_index) ==
    IF MemoryList_seek_in_bounds(line_index) THEN line_index ELSE ml_line_index

\* MemoryList::seek
MemoryList_seek(line_index) ==
    /\ ml_line_index' = MemoryList_seek_store(line_index)
    /\ ml_ret' = MemoryList_seek_result(line_index)
    /\ MlObserve
    /\ ml_fresh' = FALSE
    /\ ml_calls' = 0
    /\ UNCHANGED <<ml_vec, ml_round_robin>>

\* MemoryList::with_seek_to: the seek, its result dropped by unwrap_or_default.
MemoryList_with_seek_to(line_index) ==
    /\ ml_line_index' = MemoryList_seek_store(line_index)
    /\ ml_ret' = MlRet("with_seek_to", line_index, "Self", 0, 0, 0)
    /\ MlObserve
    /\ ml_fresh' = FALSE
    /\ ml_calls' = 0
    /\ UNCHANGED <<ml_vec, ml_round_robin>>

\* A wraparound that tests `>` where the code tests `>=`.
MemoryList_iter_wrap_late ==
    IF ml_round_robin /\ ml_line_index > Len(ml_vec) THEN 0 ELSE ml_line_index

\* The first statement of MemoryList::iter: the round-robin wraparound.
MemoryList_iter_wrap ==
    IF ml_round_robin /\ ml_line_index >= Len(ml_vec) THEN 0 ELSE ml_line_index

\* An iter whose fetch_add is outside the bounds test: it runs on None too.
MemoryList_iter_advance_always(idx) == idx + 1

\* An iter that forgets the fetch_add.
MemoryList_iter_advance_forgotten(idx) == idx

\* The line_index MemoryList::iter leaves behind, from the wrapped index.
MemoryList_iter_advance(idx) ==
    IF idx < Len(ml_vec) THEN idx + 1 ELSE idx

\* What MemoryList::iter returns, from the wrapped index.
MemoryList_iter_result(idx) ==
    IF idx < Len(ml_vec)
    THEN MlRet("iter", 0, "Some", At(ml_vec, idx), 0, 0)
    ELSE MlRet("iter", 0, "None", 0, 0, 0)

\* MemoryList::iter (and Iterator::next, which calls it).
MemoryList_iter ==
    /\ ml_fresh => ml_calls < MaxCalls
    /\ ml_line_index' = MemoryList_iter_advance(MemoryList_iter_wrap)
    /\ ml_ret' = MemoryList_iter_result(MemoryList_iter_wrap)
    /\ MlObserve
    /\ ml_calls' = IF ml_fresh THEN ml_calls + 1 ELSE 0
    /\ UNCHANGED <<ml_vec, ml_round_robin, ml_fresh>>

\* The seek targets tried: every index of the longest list and two past it.
SeekArgs == 0..(MaxLen + 1)

\* ------------------------------------------------------------- BufferList

\* The bytes a stream is made of: a letter, a blank and the line terminator.
\* All are single-byte characters, so every offset is a character boundary.
Bytes == {"a", " ", "\n"}

\* char::is_whitespace, on Bytes.
is_whitespace(c) == c \in {" ", "\n"}

\* A result of a call: `op`, `line` and `off` name the call; `tag` and the
\* rest are what it returned (Some(val) / None, Ok(n) / Err(StreamOutOfBounds
\* {line_index, bytes_offset, max_len})); a field not carried is 0 or <<>>.
BlRet(op, line, off, tag, val, n, line_index, bytes_offset, max_len) ==
    [op |-> op, line |-> line, off |-> off, tag |-> tag, val |-> val, n |-> n,
     line_index |-> line_index, bytes_offset |-> bytes_offset, max_len |-> max_len]

BlNew == BlRet("new", 0, 0, "New", <<>>, 0, 0, 0, 0)

\* BufferList::new and BufferList::new_round_robin over a fresh BufReader.
BufferList_new ==
    /\ bl_stream \in SeqsUpTo(Bytes, MaxStreamLen)
    /\ bl_pos = 0
    /\ bl_round_robin \in BOOLEAN
    /\ bl_line_index = 0
    /\ bl_bytes_offset = 0
    /\ bl_ret = BlNew
    /\ bl_before = [op |-> "new", tag |-> "New"]
    /\ bl_fresh = TRUE
    /\ bl_calls = 0

BufferList_idle ==
    /\ bl_stream = <<>>
    /\ bl_pos = 0
    /\ bl_round_robin = FALSE
    /\ bl_line_index = 0
    /\ bl_bytes_offset = 0
    /\ bl_ret = BlNew
    /\ bl_before = [op |-> "new", tag |-> "New"]
    /\ bl_fresh = TRUE
    /\ bl_calls = 0

\* The observer's record of the call that came before this one.
BlObserve == bl_before' = [op |-> bl_ret.op, tag |-> bl_ret.tag]

\* BufRead::read_line from position pos: the position it stops at, just past
\* the first "\n" at or after pos, or the end of the stream.
RECURSIVE read_line_end(_, _)
read_line_end(stream, pos) ==
    IF pos >= Len(stream) THEN Len(stream)
    ELSE IF At(stream, pos) = "\n" THEN pos + 1
    ELSE read_line_end(stream, pos + 1)

\* BufRead::read_line from position pos: the bytes appended to the string and
\* their number, the value it returns.
read_line(stream, pos) ==
    [string |-> SubSeq(stream, pos + 1, read_line_end(stream, pos)),
     bytes_read |-> read_line_end(stream, pos) - pos]

\* str::trim_start
RECURSIVE trim_start(_)
trim_start(s) ==
    IF s # <<>> /\ is_whitespace(Head(s)) THEN trim_start(Tail(s)) ELSE s

\* str::trim_end
RECURSIVE trim_end(_)
trim_end(s) ==
    IF s # <<>> /\ is_whitespace(s[Len(s)])
    THEN trim_end(SubSeq(s, 1, Len(s) - 1))
    ELSE s

\* A trim that strips the end of the line only.
trim_end_only(s) == trim_end(s)

\* str::trim
trim(s) == trim_end(trim_start(s))

\* AtomicUsize::fetch_add: the sum, wrapped at the width of usize.
fetch_add(x, n) == (x + n) % (UsizeMax + 1)

\* An incr that counts the line in bytes_offset, not its bytes.
BufferList_incr_lines_only(line_index, bytes_offset, bytes_read) ==
    [line_index |-> fetch_add(line_index, 1),
     bytes_offset |-> fetch_add(bytes_offset, 1)]

\* BufferList::incr, from the counters it finds.
BufferList_incr(line_index, bytes_offset, bytes_read) ==
    [line_index |-> fetch_add(line_index, 1),
     bytes_offset |-> fetch_add(bytes_offset, bytes_read)]

\* A reset that also takes the stream back to its start.
BufferList_reset_rewinds ==
    /\ bl_line_index' = 0
    /\ bl_bytes_offset' = 0
    /\ bl_pos' = 0
    /\ bl_ret' = BlRet("reset", 0, 0, "Unit", <<>>, 0, 0, 0, 0)
    /\ BlObserve
    /\ bl_fresh' = FALSE
    /\ bl_calls' = 0
    /\ UNCHANGED <<bl_stream, bl_round_robin>>

\* BufferList::reset
BufferList_reset ==
    /\ bl_line_index' = 0
    /\ bl_bytes_offset' = 0
    /\ bl_ret' = BlRet("reset", 0, 0, "Unit", <<>>, 0, 0, 0, 0)
    /\ BlObserve
    /\ bl_fresh' = FALSE
    /\ bl_calls' = 0
    /\ UNCHANGED <<bl_stream, bl_pos, bl_round_robin>>

\* A bounds test that rejects the end of the stream too.
BufferList_seek_out_of_bounds_at_end(stream_len, bytes_offset) ==
    stream_len <= bytes_offset

\* The bounds test of BufferList::seek, on the length seek(SeekFrom::End(0))
\* measured.
BufferList_seek_out_of_bounds(stream_len, bytes_offset) == stream_len < bytes_offset

\* The position BufferList::seek leaves the reader at: the end of the stream,
\* where the measurement put it, when the target is out of bounds.
BufferList_seek_pos(bytes_offset) ==
    IF BufferList_seek_out_of_bounds(Len(bl_stream), bytes_offset)
    THEN Len(bl_stream)
    ELSE bytes_offset

\* The max_len of the error seek returns when the length cannot be measured.
BufferList_seek_max_len_unmeasured(stream_len) == 0

\* The max_len BufferList::seek reports for a target out of bounds.
BufferList_seek_max_len(stream_len) == stream_len

\* BufferList::seek over a stream whose seeks succeed (a Cursor).
BufferList_seek(line_index, bytes_offset) ==
    /\ bl_pos' = BufferList_seek_pos(bytes_offset)
    /\ IF BufferList_seek_out_of_bounds(Len(bl_stream), bytes_offset)
       THEN /\ bl_ret' = BlRet("seek", line_index, bytes_offset, "Err", <<>>, 0,
                               line_index, bytes_offset,
                               BufferList_seek_max_len(Len(bl_stream)))
            /\ UNCHANGED <<bl_line_index, bl_bytes_offset>>
       ELSE /\ bl_line_index' = line_index
            /\ bl_bytes_offset' = bytes_offset
            /\ bl_ret' = BlRet("seek", line_index, bytes_offset, "Ok", <<>>,
                               bytes_offset, 0, 0, 0)
    /\ BlObserve
    /\ bl_fresh' = FALSE
    /\ bl_calls' = 0
    /\ UNCHANGED <<bl_stream, bl_round_robin>>

\* BufferList::with_seek_to: the seek, its result dropped by unwrap_or_default.
\* It is followed in its builder form, on the cursor new has just returned:
\* what it does to a cursor later on is what seek does to it.
BufferList_with_seek_to(line_index, bytes_offset) ==
    /\ bl_ret.op = "new"
    /\ bl_pos' = BufferList_seek_pos(bytes_offset)
    /\ IF BufferList_seek_out_of_bounds(Len(bl_stream), bytes_offset)
       THEN UNCHANGED <<bl_line_index, bl_bytes_offset>>
       ELSE /\ bl_line_index' = line_index
            /\ bl_bytes_offset' = bytes_offset
    /\ bl_ret' = BlRet("with_seek_to", line_index, bytes_offset, "Self", <<>>, 0, 0, 0, 0)
    /\ BlObserve
    /\ bl_fresh' = FALSE
    /\ bl_calls' = 0
    /\ UNCHANGED <<bl_stream, bl_round_robin>>

BlSomeRet(string) == BlRet("iter", 0, 0, "Some", trim(string), 0, 0, 0, 0)

BlNoneRet == BlRet("iter", 0, 0, "None", <<>>, 0, 0, 0, 0)

\* A rewind that seeks the stream to its start and forgets self.reset().
BufferList_iter_rewind_no_reset ==
    LET again == read_line(bl_stream, 0)
        counters == BufferList_incr(bl_line_index, bl_bytes_offset, again.bytes_read)
    IN  IF again.bytes_read = 0
        THEN /\ bl_pos' = 0
             /\ bl_ret' = BlNoneRet
             /\ UNCHANGED <<bl_line_index, bl_bytes_offset>>
        ELSE /\ bl_pos' = again.bytes_read
             /\ bl_line_index' = counters.line_index
             /\ bl_bytes_offset' = counters.bytes_offset
             /\ bl_ret' = BlSomeRet(again.string)

\* The `0 =>` arm of BufferList::iter with round_robin on: the stream is
\* rewound, the counters are reset and one more line is read.
BufferList_iter_rewind ==
    LET again == read_line(bl_stream, 0)
        counters == BufferList_incr(0, 0, again.bytes_read)
    IN  IF again.bytes_read = 0
        THEN /\ bl_pos' = 0
             /\ bl_line_index' = 0
             /\ bl_bytes_offset' = 0
             /\ bl_ret' = BlNoneRet
        ELSE /\ bl_pos' = again.bytes_read
             /\ bl_line_index' = counters.line_index
             /\ bl_bytes_offset' = counters.bytes_offset
             /\ bl_ret' = BlSomeRet(again.string)

\* BufferList::iter (and Iterator::next, which calls it).
BufferList_iter ==
    /\ bl_fresh => bl_calls < MaxCalls
    /\ LET line == read_line(bl_stream, bl_pos)
           counters == BufferList_incr(bl_line_index, bl_bytes_offset, line.bytes_read)
       IN  IF line.bytes_read = 0
           THEN IF ~bl_round_robin
                THEN /\ bl_ret' = BlNoneRet
                     /\ UNCHANGED <<bl_pos, bl_line_index, bl_bytes_offset>>
                ELSE BufferList_iter_rewind
           ELSE /\ bl_pos' = bl_pos + line.bytes_read
                /\ bl_line_index' = counters.line_index
                /\ bl_bytes_offset' = counters.bytes_offset
                /\ bl_ret' = BlSomeRet(line.string)
    /\ BlObserve
    /\ bl_calls' = IF bl_fresh THEN bl_calls + 1 ELSE 0
    /\ UNCHANGED <<bl_stream, bl_round_robin, bl_fresh>>

\* The line indexes and byte offsets handed to seek.
LineArgs == (0..MaxLineArg) \cup {UsizeMax}

OffsetArgs == 0..(MaxStreamLen + 1)

\* -------------------------------------------------------- MemoryArrayList

\* A result of a call: Some(val), None, or the panic of an index out of
\* bounds; `val` is 0 when no element is carried.
MalRet(op, tag, val) == [op |-> op, tag |-> tag, val |-> val]

\* MemoryArrayList::new and MemoryArrayList::new_round_robin.
MemoryArrayList_new ==
    /\ mal_lists \in SeqsUpTo(SeqsUpTo(Values, MaxSubLen), MaxLists)
    /\ mal_round_robin \in BOOLEAN
    /\ mal_cur_list_index = 0
    /\ mal_line_indexes = [i \in 1..Len(mal_lists) |-> 0]
    /\ mal_finished_count = 0
    /\ mal_ret = MalRet("new", "New", 0)
    /\ mal_calls = 0

MemoryArrayList_idle ==
    /\ mal_lists = <<>>
    /\ mal_round_robin = FALSE
    /\ mal_cur_list_index = 0
    /\ mal_line_indexes = <<>>
    /\ mal_finished_count = 0
    /\ mal_ret = MalRet("new", "New", 0)
    /\ mal_calls = 0

\* A head that wraps only once cur_list_index has passed the number of lists.
MemoryArrayList_iter_cur_late ==
    IF mal_cur_list_index > Len(mal_lists) THEN 0 ELSE mal_cur_list_index

\* The head of MemoryArrayList::iter: the slot read, cur_list_index wrapped to
\* 0 once it has reached the number of lists.
MemoryArrayList_iter_cur ==
    IF mal_cur_list_index >= Len(mal_lists) THEN 0 ELSE mal_cur_list_index

\* A slot that is not wrapped at its end under round_robin.
MemoryArrayList_iter_line_index_late(cur) ==
    LET advanced == At(mal_line_indexes, cur) + 1
    IN  IF mal_round_robin /\ advanced > Len(At(mal_lists, cur)) THEN 0 ELSE advanced

\* The line index MemoryArrayList::iter leaves in the slot it read from.
MemoryArrayList_iter_line_index(cur) ==
    LET advanced == At(mal_line_indexes, cur) + 1
    IN  IF mal_round_robin /\ advanced >= Len(At(mal_lists, cur)) THEN 0 ELSE advanced

\* An iter that forgets the fetch_add on cur_list_index.
MemoryArrayList_iter_next_list_forgotten(cur) == cur

\* The cur_list_index MemoryArrayList::iter leaves behind after an element.
MemoryArrayList_iter_next_list(cur) == cur + 1

\* MemoryArrayList::iter (and Iterator::next, which calls it).
MemoryArrayList_iter ==
    /\ mal_calls < MaxCalls
    /\ mal_calls' = mal_calls + 1
    /\ LET cur == MemoryArrayList_iter_cur IN
       IF cur >= Len(mal_line_indexes)
       THEN \* line_indexes[cur_list_index] with no list at all: a panic
            /\ mal_cur_list_index' = cur
            /\ mal_ret' = MalRet("iter", "Panic", 0)
            /\ UNCHANGED <<mal_line_indexes, mal_finished_count>>
       ELSE IF At(mal_line_indexes, cur) < Len(At(mal_lists, cur))
       THEN /\ mal_ret' = MalRet("iter", "Some",
                                 At(At(mal_lists, cur), At(mal_line_indexes, cur)))
            /\ mal_line_indexes' =
                 [mal_line_indexes EXCEPT ![cur + 1] = MemoryArrayList_iter_line_index(cur)]
            /\ mal_cur_list_index' = MemoryArrayList_iter_next_list(cur)
            /\ UNCHANGED mal_finished_count
       ELSE /\ mal_ret' = MalRet("iter", "None", 0)
            /\ mal_finished_count' =
                 IF mal_round_robin THEN mal_finished_count ELSE mal_finished_count + 1
            /\ mal_cur_list_index' = cur
            /\ UNCHANGED mal_line_indexes
    /\ UNCHANGED <<mal_lists, mal_round_robin>>

\* ------------------------------------- MemoryList::iter, two callers

\* The callers that share the cursor.
Threads == {1, 2}

RcRet(tag, val, at) == [tag |-> tag, val |-> val, at |-> at]

\* No caller has entered MemoryList::iter.
MemoryList_shared ==
    /\ rc_pc = [t \in Threads |-> "idle"]
    /\ rc_idx = [t \in Threads |-> 0]
    /\ rc_val = [t \in Threads |-> [val |-> 0, at |-> 0]]
    /\ rc_ret = [t \in Threads |-> RcRet("New", 0, 0)]
    /\ rc_calls = [t \in Threads |-> 0]
    /\ rc_poisoned = FALSE
    /\ rc_returned = 0
    /\ rc_wrapped = FALSE

\* Caller t enters iter and evaluates the first operand it reaches:
\* self.line_index() of `self.round_robin && self.line_index() >= ..`, or,
\* with round_robin off, the self.line_index() of the second `if`.
MemoryList_iter_enter(t) ==
    /\ rc_pc[t] = "idle"
    /\ rc_calls[t] < MaxRaceCalls
    /\ rc_idx' = [rc_idx EXCEPT ![t] = ml_line_index]
    /\ rc_pc' = [rc_pc EXCEPT ![t] = IF ml_round_robin THEN "wrap_cmp" ELSE "check_cmp"]
    /\ UNCHANGED <<ml_line_index, rc_val, rc_ret, rc_calls, rc_poisoned,
                   rc_returned, rc_wrapped>>

\* `>= self.vec.lock().unwrap().len()` of the first `if`, on the index loaded.
MemoryList_iter_wrap_cmp(t) ==
    /\ rc_pc[t] = "wrap_cmp"
    /\ rc_pc' = [rc_pc EXCEPT ![t] =
                    IF rc_poisoned THEN "panicked"
                    ELSE IF rc_idx[t] >= Len(ml_vec) THEN "wrap_store"
                    ELSE "check_load"]
    /\ UNCHANGED <<ml_line_index, rc_idx, rc_val, rc_ret, rc_calls, rc_poisoned,
                   rc_returned, rc_wrapped>>

\* self.line_index.store(0, ..)
MemoryList_iter_wrap_store(t) ==
    /\ rc_pc[t] = "wrap_store"
    /\ ml_line_index' = 0
    /\ rc_wrapped' = TRUE
    /\ rc_pc' = [rc_pc EXCEPT ![t] = "check_load"]
    /\ UNCHANGED <<rc_idx, rc_val, rc_ret, rc_calls, rc_poisoned, rc_returned>>

\* self.line_index() of the second `if`.
MemoryList_iter_check_load(t) ==
    /\ rc_pc[t] = "check_load"
    /\ rc_idx' = [rc_idx EXCEPT ![t] = ml_line_index]
    /\ rc_pc' = [rc_pc EXCEPT ![t] = "check_cmp"]
    /\ UNCHANGED <<ml_line_index, rc_val, rc_ret, rc_calls, rc_poisoned,
                   rc_returned, rc_wrapped>>

\* `< self.vec.lock().unwrap().len()` of the second `if`, and its else arm.
MemoryList_iter_check_cmp(t) ==
    /\ rc_pc[t] = "check_cmp"
    /\ IF rc_poisoned
       THEN /\ rc_pc' = [rc_pc EXCEPT ![t] = "panicked"]
            /\ UNCHANGED <<rc_ret, rc_calls>>
       ELSE IF rc_idx[t] < Len(ml_vec)
       THEN /\ rc_pc' = [rc_pc EXCEPT ![t] = "read"]
            /\ UNCHANGED <<rc_ret, rc_calls>>
       ELSE /\ rc_pc' = [rc_pc EXCEPT ![t] = "idle"]
            /\ rc_ret' = [rc_ret EXCEPT ![t] = RcRet("None", 0, 0)]
            /\ rc_calls' = [rc_calls EXCEPT ![t] = @ + 1]
    /\ UNCHANGED <<ml_line_index, rc_idx, rc_val, rc_poisoned, rc_returned, rc_wrapped>>

\* self.vec.lock().unwrap()[self.line_index()].clone(): the index is loaded
\* again under the lock; out of bounds, the caller panics holding the guard.
MemoryList_iter_read(t) ==
    /\ rc_pc[t] = "read"
    /\ IF rc_poisoned
       THEN /\ rc_pc' = [rc_pc EXCEPT ![t] = "panicked"]
            /\ UNCHANGED <<rc_val, rc_poisoned>>
       ELSE IF ml_line_index >= Len(ml_vec)
       THEN /\ rc_pc' = [rc_pc EXCEPT ![t] = "panicked"]
            /\ rc_poisoned' = TRUE
            /\ UNCHANGED rc_val
       ELSE /\ rc_pc' = [rc_pc EXCEPT ![t] = "incr"]
            /\ rc_val' = [rc_val EXCEPT ![t] =
                            [val |-> At(ml_vec, ml_line_index), at |-> ml_line_index]]
            /\ UNCHANGED rc_poisoned
    /\ UNCHANGED <<ml_line_index, rc_idx, rc_ret, rc_calls, rc_returned, rc_wrapped>>

\* An increment done as a store of the index loaded for the check, plus one.
MemoryList_iter_fetch_add_as_store(t) == rc_idx[t] + 1

\* self.line_index.fetch_add(1, ..): one atomic read-modify-write.
MemoryList_iter_fetch_add(t) == ml_line_index + 1

\* The fetch_add and `Some(val)`.
MemoryList_iter_incr(t) ==
    /\ rc_pc[t] = "incr"
    /\ ml_line_index' = MemoryList_iter_fetch_add(t)
    /\ rc_ret' = [rc_ret EXCEPT ![t] = RcRet("Some", rc_val[t].val, rc_val[t].at)]
    /\ rc_calls' = [rc_calls EXCEPT ![t] = @ + 1]
    /\ rc_returned' = rc_returned + 1
    /\ rc_pc' = [rc_pc EXCEPT ![t] = "idle"]
    /\ UNCHANGED <<rc_idx, rc_val, rc_poisoned, rc_wrapped>>

\* --------------------------------------------------------- specifications

InitMemory ==
    MemoryList_new /\ BufferList_idle /\ MemoryArrayList_idle /\ MemoryList_shared

NextMemory ==
    \/ MemoryList_iter /\ UNCHANGED <<bl_vars, mal_vars, rc_vars>>
    \/ \E i \in SeekArgs : MemoryList_seek(i) /\ UNCHANGED <<bl_vars, mal_vars, rc_vars>>
    \/ \E i \in SeekArgs : MemoryList_with_seek_to(i) /\ UNCHANGED <<bl_vars, mal_vars, rc_vars>>

SpecMemory == InitMemory /\ [][NextMemory]_vars

InitBuffer ==
    BufferList_new /\ MemoryList_idle /\ MemoryArrayList_idle /\ MemoryList_shared

NextBuffer ==
    \/ BufferList_iter /\ UNCHANGED <<ml_vars, mal_vars, rc_vars>>
    \/ BufferList_reset /\ UNCHANGED <<ml_vars, mal_vars, rc_vars>>
    \/ \E l \in LineArgs, o \in OffsetArgs :
            BufferList_seek(l, o) /\ UNCHANGED <<ml_vars, mal_vars, rc_vars>>
    \/ \E l \in LineArgs, o \in OffsetArgs :
            BufferList_with_seek_to(l, o) /\ UNCHANGED <<ml_vars, mal_vars, rc_vars>>

SpecBuffer == InitBuffer /\ [][NextBuffer]_vars

InitArray ==
    MemoryArrayList_new /\ MemoryList_idle /\ BufferList_idle /\ MemoryList_shared

NextArray == MemoryArrayList_iter /\ UNCHANGED <<ml_vars, bl_vars, rc_vars>>

SpecArray == InitArray /\ [][NextArray]_vars

\* A MemoryList fresh from new, shared by two callers of produce-next.
InitRace ==
    MemoryList_new /\ BufferList_idle /\ MemoryArrayList_idle /\ MemoryList_shared

RaceFrame ==
    UNCHANGED <<ml_vec, ml_round_robin, ml_ret, ml_before, ml_fresh, ml_calls,
                bl_vars, mal_vars>>

NextRace ==
    \/ \E t \in Threads : MemoryList_iter_enter(t) /\ RaceFrame
    \/ \E t \in Threads : MemoryList_iter_wrap_cmp(t) /\ RaceFrame
    \/ \E t \in Threads : MemoryList_iter_wrap_store(t) /\ RaceFrame
    \/ \E t \in Threads : MemoryList_iter_check_load(t) /\ RaceFrame
    \/ \E t \in Threads : MemoryList_iter_check_cmp(t) /\ RaceFrame
    \/ \E t \in Threads : MemoryList_iter_read(t) /\ RaceFrame
    \/ \E t \in Threads : MemoryList_iter_incr(t) /\ RaceFrame

SpecRace == InitRace /\ [][NextRace]_vars

\* ------------------------------------------------ properties of MemoryList

MlSome(v) == ml_ret.op = "iter" /\ ml_ret.tag = "Some" /\ ml_ret.val = v

MlNone == ml_ret.op = "iter" /\ ml_ret.tag = "None"

\* The state after the n-th produce-next call (n from 0) on a cursor on which
\* nothing else has been called since construction.
MlAfterCall(n) == ml_fresh /\ ml_calls = n + 1

\* C1: a MemoryList::new cursor over S returns S[0], ..., S[L-1] on its first
\* L produce-next calls and None on every call after them.
C1_MemoryDrainThenEnd ==
    \A n \in 0..(MaxCalls - 1) :
        (~ml_round_robin /\ MlAfterCall(n)) =>
            IF n < Len(ml_vec) THEN MlSome(At(ml_vec, n)) ELSE MlNone

\* Three elements drained and None returned twice since.
C1_Witness ==
    /\ ~ml_round_robin /\ Len(ml_vec) = 3 /\ At(ml_vec, 0) # At(ml_vec, 1)
    /\ MlAfterCall(4) /\ MlNone

\* C2: a MemoryList::new_round_robin cursor over S of length L > 0 returns
\* S[n mod L] on its n-th produce-next call, for every n, and never None; over
\* the empty sequence every call returns None.
C2_MemoryRoundRobin ==
    \A n \in 0..(MaxCalls - 1) :
        (ml_round_robin /\ MlAfterCall(n)) =>
            IF Len(ml_vec) > 0
            THEN MlSome(At(ml_vec, n % Len(ml_vec)))
            ELSE MlNone

\* The second pass over a list of two distinct elements has ended.
C2_Witness ==
    /\ ml_round_robin /\ Len(ml_vec) = 2 /\ At(ml_vec, 0) # At(ml_vec, 1)
    /\ MlAfterCall(3) /\ MlSome(At(ml_vec, 1))

\* C3: seek(i) succeeds iff i < L, from any position and in either mode; the
\* produce-next that follows a successful seek(i) returns S[i] and leaves the
\* position at i + 1, also for i = L - 1 in round-robin mode.
C3_MemorySeek ==
    /\ ml_ret.op = "seek" =>
        /\ ml_ret.tag = "Ok" <=> ml_ret.arg < Len(ml_vec)
        /\ ml_ret.tag = "Ok" =>
            ml_ret.line_index = ml_ret.arg /\ ml_line_index = ml_ret.arg
    /\ (ml_ret.op = "iter" /\ ml_before.ret.op = "seek" /\ ml_before.ret.tag = "Ok") =>
        /\ MlSome(At(ml_vec, ml_before.ret.arg))
        /\ ml_line_index = ml_before.ret.arg + 1

\* A round-robin cursor sought to its last element and read: position L.
C3_Witness ==
    /\ ml_round_robin /\ Len(ml_vec) = 3
    /\ ml_ret.op = "iter" /\ ml_before.ret.op = "seek" /\ ml_before.ret.tag = "Ok"
    /\ ml_before.ret.arg = 2 /\ ml_line_index = 3

\* What produce-next returns from position p, as sections 3 and 4.1 state it.
MlExpected(p) ==
    IF p < Len(ml_vec) THEN MlSome(At(ml_vec, p))
    ELSE IF ml_round_robin /\ Len(ml_vec) > 0 THEN MlSome(At(ml_vec, 0))
    ELSE MlNone

\* C4: seek(i) with i >= L fails with MemoryOutOfBounds{line_index: i,
\* max_len: L} and leaves the position as it was, so the produce-next that
\* follows returns what the position before the seek selects.
C4_MemorySeekOutOfBounds ==
    /\ (ml_ret.op = "seek" /\ ml_ret.arg >= Len(ml_vec)) =>
        /\ ml_ret.tag = "Err"
        /\ ml_ret.line_index = ml_ret.arg
        /\ ml_ret.max_len = Len(ml_vec)
        /\ ml_line_index = ml_before.line_index
    /\ (ml_ret.op = "iter" /\ ml_before.ret.op = "seek" /\ ml_before.ret.tag = "Err") =>
        MlExpected(ml_before.line_index)

\* A failed seek from the middle of a list, then the element it had reached.
C4_Witness ==
    /\ Len(ml_vec) = 3 /\ ml_ret.op = "iter"
    /\ ml_before.ret.op = "seek" /\ ml_before.ret.tag = "Err"
    /\ ml_before.ret.arg = 3 /\ ml_before.line_index = 1 /\ ml_line_index = 2

\* ------------------------------------------------ properties of BufferList

BlSome(v) == bl_ret.op = "iter" /\ bl_ret.tag = "Some" /\ bl_ret.val = v

BlNone == bl_ret.op = "iter" /\ bl_ret.tag = "None"

\* The state after the n-th produce-next call (n from 0) on a cursor on which
\* nothing else has been called since construction.
BlAfterCall(n) == bl_fresh /\ bl_calls = n + 1

\* The lines of a byte string, each with its terminator; the last one has
\* none when the string does not end in "\n".
RECURSIVE SplitLines(_, _)
SplitLines(s, cur) ==
    IF s = <<>> THEN (IF cur = <<>> THEN <<>> ELSE <<cur>>)
    ELSE IF Head(s) = "\n" THEN <<Append(cur, "\n")>> \o SplitLines(Tail(s), <<>>)
    ELSE SplitLines(Tail(s), Append(cur, Head(s)))

StreamLines == SplitLines(bl_stream, <<>>)

\* A line without its leading and trailing whitespace: what lies between its
\* first and its last visible byte.
Trimmed(s) ==
    LET visible == {i \in 1..Len(s) : s[i] \notin {" ", "\n"}}
    IN  IF visible = {} THEN <<>>
        ELSE SubSeq(s, CHOOSE i \in visible : \A j \in visible : i <= j,
                       CHOOSE i \in visible : \A j \in visible : i >= j)

\* The bytes of the first k lines.
RECURSIVE BytesThrough(_, _)
BytesThrough(lines, k) ==
    IF k = 0 THEN 0 ELSE Len(lines[k]) + BytesThrough(lines, k - 1)

\* The stream is made of delimiter-terminated lines.
Terminated == bl_stream = <<>> \/ bl_stream[Len(bl_stream)] = "\n"

\* C5: a BufferList::new cursor over a stream of m delimiter-terminated lines
\* returns the m lines in order, each trimmed, on its first m produce-next
\* calls and None on every later call; once drained, line_index = m and
\* bytes_offset = the length of the stream.
C5_BufferDrainThenEnd ==
    LET m == Len(StreamLines) IN
    /\ \A n \in 0..(MaxCalls - 1) :
        (~bl_round_robin /\ Terminated /\ BlAfterCall(n)) =>
            IF n < m THEN BlSome(Trimmed(StreamLines[n + 1])) ELSE BlNone
    /\ (~bl_round_robin /\ Terminated /\ bl_fresh /\ bl_calls >= m) =>
        bl_line_index = m /\ bl_bytes_offset = Len(bl_stream)

\* Two lines, the first with a blank on either side, drained; None since.
C5_Witness ==
    /\ ~bl_round_robin /\ bl_stream = <<" ", "a", "\n">>
    /\ BlAfterCall(2) /\ BlNone /\ bl_line_index = 1 /\ bl_bytes_offset = 3

\* C6: a BufferList::new_round_robin cursor over a non-empty stream of m lines
\* returns line n mod m on its n-th produce-next call and never None, the two
\* counters starting again from zero at each wraparound; over an empty stream
\* every call returns None.
C6_BufferRoundRobin ==
    LET m == Len(StreamLines) IN
    \A n \in 0..(MaxCalls - 1) :
        (bl_round_robin /\ BlAfterCall(n)) =>
            IF m > 0
            THEN /\ BlSome(Trimmed(StreamLines[(n % m) + 1]))
                 /\ bl_line_index = (n % m) + 1
                 /\ bl_bytes_offset = BytesThrough(StreamLines, (n % m) + 1)
            ELSE BlNone /\ bl_line_index = 0 /\ bl_bytes_offset = 0

\* The second pass over a stream of two different lines has ended.
C6_Witness ==
    /\ bl_round_robin /\ bl_stream = <<"a", "\n", "\n">>
    /\ BlAfterCall(3) /\ BlSome(<<>>) /\ bl_line_index = 2 /\ bl_bytes_offset = 3

\* What read_line reads from byte off: the bytes up to and with the next
\* terminator, or up to the end of the stream; nothing at the end of it.
TextAt(off) ==
    LET rest == SplitLines(SubSeq(bl_stream, off + 1, Len(bl_stream)), <<>>)
    IN  IF rest = <<>> THEN <<>> ELSE rest[1]

\* What seek(line, off) returns and leaves behind.
C7_SeekOutcome ==
    bl_ret.op = "seek" =>
        /\ bl_ret.tag = "Ok" <=> bl_ret.off <= Len(bl_stream)
        /\ bl_ret.tag = "Ok" =>
            /\ bl_line_index = bl_ret.line
            /\ bl_bytes_offset = bl_ret.off
            /\ bl_ret.n = bl_ret.off

\* A produce-next that follows a successful seek.
C7_NextAfterSeek == bl_ret.op = "seek" /\ bl_ret.tag = "Ok" /\ bl_ret'.op = "iter"

\* C7 as stated: seek(line, off) succeeds iff off <= len, sets line_index :=
\* line and bytes_offset := off and returns off; the produce-next that follows
\* returns the trimmed line that starts at byte off and leaves line + 1 and
\* off plus that line's byte length in the counters.
C7_AsStated ==
    /\ []C7_SeekOutcome
    /\ [][C7_NextAfterSeek =>
            /\ bl_ret'.tag = "Some"
            /\ bl_ret'.val = Trimmed(TextAt(bl_ret.off))
            /\ bl_line_index' = bl_ret.line + 1
            /\ bl_bytes_offset' = bl_ret.off + Len(TextAt(bl_ret.off))]_vars

\* C7, amended: seek(line, off) succeeds iff off <= len, sets line_index :=
\* line and bytes_offset := off and returns off.  With off < len the
\* produce-next that follows returns the trimmed text from byte off to the end
\* of its line and leaves line + 1, wrapped to 0 at usize::MAX, and off plus
\* the bytes read.  With off = len it finds the end of the stream: without
\* round-robin it returns None and leaves the counters at line and off, with
\* round-robin it returns the first line and leaves 1 and that line's bytes,
\* or None and two zeros over an empty stream.
C7_BufferSeek ==
    /\ []C7_SeekOutcome
    /\ [][C7_NextAfterSeek =>
            IF bl_ret.off < Len(bl_stream)
            THEN /\ bl_ret'.tag = "Some"
                 /\ bl_ret'.val = Trimmed(TextAt(bl_ret.off))
                 /\ bl_line_index' = (bl_ret.line + 1) % (UsizeMax + 1)
                 /\ bl_bytes_offset' = bl_ret.off + Len(TextAt(bl_ret.off))
            ELSE IF ~bl_round_robin
            THEN /\ bl_ret'.tag = "None"
                 /\ bl_line_index' = bl_ret.line
                 /\ bl_bytes_offset' = bl_ret.off
            ELSE IF bl_stream # <<>>
            THEN /\ bl_ret'.tag = "Some"
                 /\ bl_ret'.val = Trimmed(StreamLines[1])
                 /\ bl_line_index' = 1
                 /\ bl_bytes_offset' = Len(StreamLines[1])
            ELSE /\ bl_ret'.tag = "None"
                 /\ bl_line_index' = 0
                 /\ bl_bytes_offset' = 0]_vars

\* seek(1, 2) on "a\na" has succeeded and the line at byte 2 has been read.
C7_Witness ==
    /\ bl_stream = <<"a", "\n", "a">>
    /\ bl_before.op = "seek" /\ bl_before.tag = "Ok"
    /\ BlSome(<<"a">>) /\ bl_line_index = 2 /\ bl_bytes_offset = 3

\* C8: seek(line, off) with off > len fails with StreamOutOfBounds{line_index:
\* line, bytes_offset: off, max_len: len} and leaves line_index and
\* bytes_offset as they were.
C8_BufferSeekOutOfBounds ==
    /\ [](  (bl_ret.op = "seek" /\ bl_ret.off > Len(bl_stream)) =>
                /\ bl_ret.tag = "Err"
                /\ bl_ret.line_index = bl_ret.line
                /\ bl_ret.bytes_offset = bl_ret.off
                /\ bl_ret.max_len = Len(bl_stream))
    /\ [][(bl_ret'.op = "seek" /\ bl_ret'.off > Len(bl_stream)) =>
            UNCHANGED <<bl_line_index, bl_bytes_offset>>]_vars

\* A line read, then a seek past the end that failed: the counters stand.
C8_Witness ==
    /\ bl_stream = <<"a", "\n", "a">>
    /\ bl_before.op = "iter" /\ bl_before.tag = "Some"
    /\ bl_ret.op = "seek" /\ bl_ret.tag = "Err" /\ bl_ret.line = 0 /\ bl_ret.off = 4
    /\ bl_ret.max_len = 3 /\ bl_line_index = 1 /\ bl_bytes_offset = 2

\* ------------------------------------------- properties of MemoryArrayList

MalSome(v) == mal_ret.op = "iter" /\ mal_ret.tag = "Some" /\ mal_ret.val = v

MalNone == mal_ret.op = "iter" /\ mal_ret.tag = "None"

\* The state after the n-th produce-next call (n from 0).
MalAfterCall(n) == mal_calls = n + 1

\* The number of lists, and list s (0-based).
MalN == Len(mal_lists)

MalList(s) == At(mal_lists, s)

\* C9: a MemoryArrayList::new cursor over N >= 1 lists of one length L returns
\* lists[n mod N][n div N] on its n-th produce-next call for n < N * L, and
\* None on every call from the (N * L)-th on.
C9_ArrayDrainThenEnd ==
    \A n \in 0..(MaxCalls - 1) :
        ( /\ ~mal_round_robin /\ MalN >= 1 /\ MalAfterCall(n)
          /\ \A s \in 0..(MalN - 1) : Len(MalList(s)) = Len(MalList(0)) ) =>
            IF n < MalN * Len(MalList(0))
            THEN MalSome(At(MalList(n % MalN), n \div MalN))
            ELSE MalNone

\* Three lists of two elements drained in rotation; None since.
C9_Witness ==
    /\ ~mal_round_robin /\ mal_lists = << <<1, 2>>, <<2, 1>>, <<1, 1>> >>
    /\ MalAfterCall(6) /\ MalNone

C11_IterationNeverFails ==
    /\ ml_ret.op = "iter" => ml_ret.tag \in {"Some", "None"}
    /\ bl_ret.op = "iter" => bl_ret.tag \in {"Some", "None"}
    /\ mal_ret.op = "iter" => mal_ret.tag \in {"Some", "None"}

\* --------------------------------------------------- the builder's seek

\* C12: with_seek_to drops a seek failure and leaves the cursor where new put
\* it, in both families: built with a target out of bounds, a MemoryList or a
\* BufferList has its counters at zero and its first produce-next returns the
\* first element, or the first line, as it does without with_seek_to.
C12_BuilderSeekFailureIsDiscarded ==
    /\ []( (/\ ml_ret.op = "with_seek_to" /\ ml_before.ret.op = "new"
            /\ ml_ret.arg >= Len(ml_vec)) => ml_line_index = 0 )
    /\ []( (bl_ret.op = "with_seek_to" /\ bl_ret.off > Len(bl_stream)) =>
                bl_line_index = 0 /\ bl_bytes_offset = 0 )
    /\ [][ (/\ ml_ret.op = "with_seek_to" /\ ml_before.ret.op = "new"
            /\ ml_ret.arg >= Len(ml_vec) /\ ml_ret'.op = "iter") =>
                IF ml_vec # <<>>
                THEN ml_ret'.tag = "Some" /\ ml_ret'.val = At(ml_vec, 0)
                ELSE ml_ret'.tag = "None" ]_vars
    /\ [][ (/\ bl_ret.op = "with_seek_to" /\ bl_ret.off > Len(bl_stream)
            /\ bl_ret'.op = "iter") =>
                IF bl_stream # <<>>
                THEN bl_ret'.tag = "Some" /\ bl_ret'.val = Trimmed(StreamLines[1])
                ELSE bl_ret'.tag = "None" ]_vars

\* ------------------------------------------------------- MemoryList, again

\* C13: on a MemoryList in any reachable state, seek(line_index()), whether
\* it succeeds or fails (at position = length), leaves the position where it
\* was, and the produce-next after it returns what that position selects.
C13_SeekToCurrentPosition ==
    /\ (ml_ret.op = "seek" /\ ml_ret.arg = ml_before.line_index) =>
        ml_line_index = ml_before.line_index
    /\ (/\ ml_ret.op = "iter" /\ ml_before.ret.op = "seek"
        /\ ml_before.ret.arg = ml_before.line_index) =>
        MlExpected(ml_before.ret.arg)

\* A round-robin cursor at its end, a seek to that position that failed, and
\* the first element again.
C13_Witness ==
    /\ ml_round_robin /\ Len(ml_vec) = 3 /\ At(ml_vec, 0) # At(ml_vec, 1)
    /\ ml_before.ret.op = "seek" /\ ml_before.ret.tag = "Err"
    /\ ml_before.ret.arg = 3 /\ ml_before.line_index = 3
    /\ MlSome(At(ml_vec, 0)) /\ ml_line_index = 1

\* ------------------------------------ properties of a shared MemoryList

\* Both callers have returned an element read at position p.
RcBothReadAt(p) ==
    \A t \in Threads : rc_pc[t] = "idle" /\ rc_ret[t].tag = "Some" /\ rc_ret[t].at = p

C15_FailedSeekChangesNothing ==
    [][ (bl_ret'.op = "seek" /\ bl_ret'.tag = "Err") =>
            UNCHANGED <<bl_line_index, bl_bytes_offset, bl_pos,
                        bl_stream, bl_round_robin>> ]_vars

\* ------------------------------------------- MemoryArrayList, again

\* C16: under MemoryArrayList::new, over lists of any lengths, a turn on an
\* exhausted slot yields nothing for that turn only and the rotation moves on:
\* call n lands on slot n mod N and returns its element n div N when it has
\* one, None when it has not, so every element of every list is returned, in
\* slot-rotation order (over [[1],[2,3]]: 1, 2, None, 3).
C16_ExhaustedSlotIsPassed ==
    \A n \in 0..(MaxCalls - 1) :
        (~mal_round_robin /\ MalN >= 1 /\ MalAfterCall(n)) =>
            IF n \div MalN < Len(MalList(n % MalN))
            THEN MalSome(At(MalList(n % MalN), n \div MalN))
            ELSE MalNone

\* C17: every produce-next moves the active slot on by one modulo N, whether
\* the call returned an element or found the slot exhausted, in both modes.
\* The slot is cur_list_index modulo N: the code wraps the stored value at the
\* head of the next call.
C17_SlotAdvancesOnEveryCall ==
    [][ (mal_calls' = mal_calls + 1 /\ MalN >= 1) =>
            mal_cur_list_index' % MalN = ((mal_cur_list_index % MalN) + 1) % MalN ]_vars

\* The slots whose position has reached their length.
MalExhausted ==
    {s \in 0..(MalN - 1) : At(mal_line_indexes, s) >= Len(MalList(s))}

\* C18: under MemoryArrayList::new a slot is counted once toward
\* finished_count: the count never exceeds the number of exhausted slots, so
\* never N, however many calls follow the exhaustion.
C18_FinishedCountedOnce ==
    ~mal_round_robin => mal_finished_count <= Cardinality(MalExhausted)

\* C19 as stated: between calls, over N >= 1 lists, 0 <= cur_list_index < N.
C19_AsStated ==
    MalN >= 1 => mal_cur_list_index < MalN

\* C19: between calls, over N >= 1 lists, 0 <= cur_list_index <= N. The value
\* N is left by the call that returned an element of slot N-1 and stands for
\* slot 0: the next call wraps it before it indexes, so no call indexes
\* outside the lists.
C19_SlotInRange ==
    MalN >= 1 =>
        /\ mal_cur_list_index \in 0..MalN
        /\ mal_cur_list_index = MalN => mal_ret.tag = "Some"
        /\ mal_ret.tag # "Panic"

\* The last of two or three slots has yielded, cur_list_index is N, and on an
\* earlier lap the value N was wrapped to slot 0.
C19_Witness ==
    /\ MalN >= 2 /\ mal_cur_list_index = MalN
    /\ mal_calls = 2 * MalN /\ mal_ret.tag = "Some"

\* ------------------------------------------------------ BufferList, again

\* What a produce-next adds to bytes_offset: the bytes of the line it reads,
\* terminator included. At the end of the stream it reads nothing, or under
\* round_robin resets the count and reads the first line.
C20_IterStep ==
    bl_ret'.op = "iter" =>
        LET text == TextAt(bl_pos) IN
        IF text # <<>>
        THEN bl_bytes_offset' = bl_bytes_offset + Len(text)
        ELSE IF bl_round_robin
             THEN bl_bytes_offset' = Len(TextAt(0))
             ELSE bl_bytes_offset' = bl_bytes_offset

\* C20 as stated: bytes_offset is the sum of the bytes of the lines read since
\* the most recent reset or seek, so it is 0 when a reset or a seek has just
\* returned and grows by the bytes of each line read.
C20_AsStated ==
    /\ [](bl_ret.op \in {"new", "reset", "seek"} => bl_bytes_offset = 0)
    /\ [][C20_IterStep]_vars

\* C20: bytes_offset is a base plus the bytes of the lines read since the
\* base was set. The base is 0 at construction, at reset() and at a
\* round-robin wraparound, and the target byte offset at a successful seek; a
\* failed seek sets no base and leaves bytes_offset as it was. The count never
\* passes the length of the stream.
C20_BytesOffset ==
    /\ [](/\ bl_ret.op = "new" => bl_bytes_offset = 0
          /\ bl_bytes_offset <= Len(bl_stream))
    /\ [][ /\ C20_IterStep
           /\ bl_ret'.op = "reset" => bl_bytes_offset' = 0
           /\ bl_ret'.op \in {"seek", "with_seek_to"} =>
                  bl_bytes_offset' = IF bl_ret'.off <= Len(bl_stream)
                                     THEN bl_ret'.off
                                     ELSE bl_bytes_offset ]_vars

\* seek(0, 1) on "\na\n" has succeeded and the two bytes of "a\n" have been
\* read from there: bytes_offset is 1 + 2.
C20_Witness ==
    /\ bl_stream = <<"\n", "a", "\n">>
    /\ bl_before.op = "seek" /\ bl_before.tag = "Ok"
    /\ BlSome(<<"a">>) /\ bl_line_index = 1 /\ bl_bytes_offset = 3

\* ------------------------------------------------------ MemoryList, again

\* C21: with one caller, in either mode, after any sequence of produce-next,
\* seek and with_seek_to calls, failed ones included, 0 <= line_index <= len;
\* and a produce-next that returned None has left line_index where it was.
C21_PositionInRange ==
    /\ ml_line_index \in 0..Len(ml_vec)
    /\ MlNone => ml_line_index = ml_before.line_index

\* A list of two or three elements has been drained, a seek past its end has
\* failed, and the produce-next after it has returned None at line_index = len.
C21_Witness ==
    /\ Len(ml_vec) >= 2 /\ ~ml_round_robin
    /\ ml_before.ret.op = "seek" /\ ml_before.ret.tag = "Err"
    /\ MlNone /\ ml_line_index = Len(ml_vec)

\* The line the next produce-next reads, from the stream, its position and
\* the round-robin flag alone: the line at the position, or at the end of the
\* stream the first line under round_robin and none otherwise.
C22_NextText ==
    IF TextAt(bl_pos) # <<>> THEN TextAt(bl_pos)
    ELSE IF bl_round_robin THEN TextAt(0) ELSE <<>>

\* C22: reset() sets line_index and bytes_offset to zero and leaves the stream,
\* its position and the round-robin flag as they were. What a produce-next
\* returns depends on these three alone, so the one after a reset returns the
\* line it would have returned without the reset, and the counters then
\* report 1 and the byte length of that line, terminator included (0 and 0
\* when there was no line to return).
C22_ResetKeepsStreamPosition ==
    [][ /\ bl_ret'.op = "reset" =>
              /\ bl_line_index' = 0 /\ bl_bytes_offset' = 0
              /\ UNCHANGED <<bl_stream, bl_pos, bl_round_robin>>
        /\ bl_ret'.op = "iter" =>
              IF C22_NextText # <<>>
              THEN bl_ret'.tag = "Some" /\ bl_ret'.val = Trimmed(C22_NextText)
              ELSE bl_ret'.tag = "None"
        /\ (bl_ret.op = "reset" /\ bl_ret'.op = "iter") =>
              IF C22_NextText # <<>>
              THEN bl_line_index' = 1 /\ bl_bytes_offset' = Len(C22_NextText)
              ELSE bl_line_index' = 0 /\ bl_bytes_offset' = 0 ]_vars

\* On "a\na" the first line was passed, reset() was called at byte 2, and the
\* produce-next after it has returned the second line: the counters are 1 and
\* 1, with the stream at byte 3.
C22_Witness ==
    /\ bl_stream = <<"a", "\n", "a">>
    /\ bl_before.op = "reset"
    /\ BlSome(<<"a">>) /\ bl_pos = 3
    /\ bl_line_index = 1 /\ bl_bytes_offset = 1

====
